---- MODULE Spec2Model ----
(***************************************************************************)
(* Run orchestration of the Cypress runner service.                        *)
(*                                                                         *)
(* Two server variants are modelled side by side, chosen at start-up:      *)
(*   "original"  server/index.js                                           *)
(*   "improved"  server/index-improved.js                                  *)
(* The state is the run registry (the `runs` Map, in insertion order), the *)
(* subscriber Map `clients`, the run directories on disk, and, per run,    *)
(* the position of its runCypress call and of its external process.        *)
(*                                                                         *)
(* Run ids are `${ISO timestamp}-${nanoid(6)}`; the model draws a fresh id *)
(* for every submission (the generator's collision freedom is taken as     *)
(* given here, it is not enforced by the code).                            *)
(***************************************************************************)
EXTENDS Integers, Sequences, FiniteSets, TLC

\* ---------------------------------------------------------------- bounds
MaxRuns == 3
\* submissions in the specification that also has subscribers
StreamRuns == 2
MaxSinks == 2
MaxChunks == 2
MaxClock == 1
\* environment failures (I/O errors, failed spawns, signal kills, bad sockets)
\* injected in one behaviour
MaxFaults == 1
\* values nanoid(6) can return (64^6 in the library), scaled down
MaxSuffix == 3
\* artifact directories: distinct file stems, entries of the artifact
\* folder, entries of one of its sub-folders
MaxNames == 2
MaxEntries == 2
MaxSubEntries == 1
\* characters in one chunk of process output
MaxChunkLen == 4
\* submissions in the specification of the shutdown
ShutdownRuns == 1
\* config.upload.maxRunsRetention (MAX_RUNS_RETENTION, default 50), scaled
\* down so that the registry can exceed it within MaxRuns submissions.
MaxRunsRetention == 1

RunIds == 1..MaxRuns
SinkIds == 1..MaxSinks

VARIABLES
    variant,      \* which server file is running
    crashed,      \* an uncaught exception ended the Node process
    clock,        \* wall clock (ms) as read by new Date()
    nextId,       \* next fresh run id
    runs,         \* registry: the keys of the runs Map, in insertion order
    status,       \* run.status, "none" before the run object exists
    statusHist,   \* the values run.status has taken, in order
    createdAt,    \* run.createdAt
    phase,        \* position of runCypress / the external process, per run
    dirExists,    \* runs/<id> exists on disk
    exitFile,     \* content of runs/<id>/exit-code.txt, "absent" if none
    closeEvt,     \* the code the 'close' event carried, <<>> before it
    clientKeys,   \* keys of the clients Map
    clientList,   \* clients.get(id), <<>> when there is no entry
    sinkRun,      \* the run id a response stream was opened for, 0 if unused
    sinkState,    \* "unused", "open", "broken", "ended", "closed"
    received,     \* what was written to each response stream
    joined,       \* number of broadcasts of its run made before a sink connected
    early,        \* the sink connected before its run had ended
    published,    \* per run, the broadcast calls made so far (kinds)
    runCalls,     \* number of runCypress executions per run id
    spawns,       \* number of spawn calls per run id
    lastSweep,    \* what the latest cleanupOldRuns that found excess runs removed / failed on
    faults,       \* environment failures injected so far
    runFields,    \* the fields of a run object other than createdAt and status
    issued,       \* the run ids POST /start has generated, as <<millisecond, suffix>>
    listing,      \* the latest response of GET /runs
    tree,         \* content of an artifact directory, as readdirSync lists it
    videos,       \* the latest result of getRunVideos
    screenshots,  \* the latest result of getRunScreenshots
    baseUrl,      \* run.baseUrl of the run whose command is built
    workFiles,    \* the config file names present in the run's work directory
    cypressCommand, \* the argument list handed to spawn
    chunk,        \* a chunk of process output handed to broadcast, as characters
    wire,         \* the characters broadcast wrote to a sink for it
    signalled,    \* SIGTERM or SIGINT was received, server.close() was called
    exited        \* the server.close callback ran: process.exit(0)

\* the service: registry, subscribers, processes, disk
runVars == <<variant, crashed, clock, nextId, runs, status, statusHist, createdAt, phase,
             dirExists, exitFile, closeEvt, clientKeys, clientList, sinkRun,
             sinkState, received, joined, early, published, runCalls, spawns,
             lastSweep, faults>>

\* inputs and results of the functions that are looked at on their own
queryVars == <<issued, listing, tree, videos, screenshots, baseUrl, workFiles,
               cypressCommand>>

\* the text of one broadcast, and the shutdown of the server
ioVars == <<chunk, wire, signalled, exited>>

vars == <<runVars, queryVars, ioVars, runFields>>

\* ------------------------------------------------------------ exit codes
\* The value a 'close' event carries: an integer, or null after a signal.
NullCode == [isNull |-> TRUE, n |-> 0]
IntCode(n) == [isNull |-> FALSE, n |-> n]
\* -2 is the errno (ENOENT) a failed spawn hands to 'close'.
ExitCodes == {IntCode(0), IntCode(1), NullCode}
SpawnErrorCode_Zero == IntCode(0)
SpawnErrorCode == IntCode(0 - 2)

Digit(d) == CASE d = 0 -> "0" [] d = 1 -> "1" [] d = 2 -> "2" [] d = 3 -> "3"
              [] d = 4 -> "4" [] d = 5 -> "5" [] d = 6 -> "6" [] d = 7 -> "7"
              [] d = 8 -> "8" [] d = 9 -> "9"

\* Number.prototype.toString for the one-digit codes of the model.
NumToString(n) == IF n < 0 THEN "-" \o Digit(0 - n) ELSE Digit(n)

\* code.toString(): a TypeError when code is null.
ToStringThrows(code) == code.isNull

\* code === 0 ? 'done' : 'failed'
CloseStatus_Truthy(code) == IF code.isNull \/ code.n = 0 THEN "done" ELSE "failed"
CloseStatus(code) == IF ~code.isNull /\ code.n = 0 THEN "done" ELSE "failed"

\* run.status = 'running'
StartStatus_Unset == "queued"
StartStatus_Failed == "failed"
StartStatus == "running"

\* ---------------------------------------------------------------- helpers
Range(s) == {s[i] : i \in 1..Len(s)}

Without_Head(s, x) == IF s = <<>> THEN <<>> ELSE Tail(s)
RECURSIVE Without(_, _)
\* runClients.filter(c => c !== res)
Without(s, x) ==
    IF s = <<>> THEN <<>>
    ELSE IF Head(s) = x THEN Without(Tail(s), x)
    ELSE <<Head(s)>> \o Without(Tail(s), x)

\* runs.delete for a set of ids, keeping the Map's insertion order
RECURSIVE DeleteAll(_, _)
DeleteAll(s, gone) ==
    IF s = <<>> THEN <<>>
    ELSE IF Head(s) \in gone THEN DeleteAll(Tail(s), gone)
    ELSE <<Head(s)>> \o DeleteAll(Tail(s), gone)

\* ------------------------------------------------------- retention sweep
\* The comparator (a, b) => b[1].createdAt - a[1].createdAt
CompareDesc_Ascending(ca, a, b) == ca[a] - ca[b]
CompareDesc(ca, a, b) == ca[b] - ca[a]

\* Insert x behind every element that does not sort after it: Array.sort is
\* stable, entries that compare equal keep their insertion order.
RECURSIVE InsertSorted(_, _, _)
InsertSorted(ca, sorted, x) ==
    IF sorted = <<>> THEN <<x>>
    ELSE IF CompareDesc(ca, Head(sorted), x) <= 0
         THEN <<Head(sorted)>> \o InsertSorted(ca, Tail(sorted), x)
         ELSE <<x>> \o sorted

SortRuns_Unsorted(ca, reg) == reg
RECURSIVE SortRuns(_, _)
\* Array.from(runs.entries()).sort(...)
SortRuns(ca, reg) ==
    IF reg = <<>> THEN <<>>
    ELSE InsertSorted(ca, SortRuns(ca, SubSeq(reg, 1, Len(reg) - 1)), reg[Len(reg)])

\* runsArray.slice(config.upload.maxRunsRetention), when the array is longer
ToDelete_OffByOne(ca, reg) ==
    LET runsArray == SortRuns(ca, reg)
    IN  IF Len(runsArray) > MaxRunsRetention + 1
        THEN SubSeq(runsArray, MaxRunsRetention + 2, Len(runsArray))
        ELSE <<>>
ToDelete_OnePerCall(ca, reg) ==
    LET runsArray == SortRuns(ca, reg)
    IN  IF Len(runsArray) > MaxRunsRetention
        THEN <<runsArray[Len(runsArray)]>>
        ELSE <<>>
ToDelete(ca, reg) ==
    LET runsArray == SortRuns(ca, reg)
    IN  IF Len(runsArray) > MaxRunsRetention
        THEN SubSeq(runsArray, MaxRunsRetention + 1, Len(runsArray))
        ELSE <<>>

Evicted_Regardless(ca, reg, failing) == Range(ToDelete(ca, reg))
\* The ids one cleanupOldRuns call removes: those of toDelete whose
\* fs.rmSync did not throw (failing: the ids whose rmSync throws).
Evicted(ca, reg, failing) == Range(ToDelete(ca, reg)) \ failing

NoSweep == [removed |-> {}, failed |-> {}]

\* ------------------------------------------------------------ broadcast
\* clients.get(runId) || []
RECURSIVE AllClients(_)
AllClients(n) == IF n = 0 THEN <<>> ELSE AllClients(n - 1) \o clientList[n]
RunClients_Global(r) == AllClients(MaxRuns)
RunClients(r) == IF r \in clientKeys THEN clientList[r] ELSE <<>>

\* Index of the first sink of the list whose write throws, Len + 1 if none.
FirstBroken(list) ==
    IF \E i \in 1..Len(list) : sinkState[list[i]] = "broken"
    THEN CHOOSE i \in 1..Len(list) :
            /\ sinkState[list[i]] = "broken"
            /\ \A j \in 1..(i - 1) : sinkState[list[j]] # "broken"
    ELSE Len(list) + 1

\* The improved broadcast catches a throwing client.write and goes on; the
\* original forEach is left by the first write that throws.
Delivered(r) ==
    LET list == RunClients(r)
    IN  IF variant = "improved"
        THEN {list[i] : i \in {j \in 1..Len(list) : sinkState[list[j]] = "open"}}
        ELSE {list[i] : i \in {j \in 1..Len(list) :
                                 j < FirstBroken(list) /\ sinkState[list[j]] = "open"}}

BroadcastThrows(r) ==
    /\ variant = "original"
    /\ \E i \in 1..Len(RunClients(r)) : sinkState[RunClients(r)[i]] = "broken"

\* A written event is <<run id, index among the run's broadcasts>>.
Broadcast(r, kind) ==
    /\ received' = [s \in SinkIds |->
                      IF s \in Delivered(r)
                      THEN Append(received[s], <<r, Len(published[r]) + 1>>)
                      ELSE received[s]]
    /\ published' = [published EXCEPT ![r] = Append(@, kind)]

NoBroadcast == UNCHANGED <<received, published>>

\* ------------------------------------------------------------ bookkeeping
SetStatus(r, v) ==
    /\ status' = [status EXCEPT ![r] = v]
    /\ statusHist' = [statusHist EXCEPT ![r] =
                        IF @ # <<>> /\ @[Len(@)] = v THEN @ ELSE Append(@, v)]

\* Two assignments to run.status within one handler.
SetStatus2(r, v, w) ==
    /\ status' = [status EXCEPT ![r] = w]
    /\ statusHist' = [statusHist EXCEPT ![r] =
                        LET h1 == IF @ # <<>> /\ @[Len(@)] = v THEN @ ELSE Append(@, v)
                        IN  IF h1[Len(h1)] = w THEN h1 ELSE Append(h1, w)]

\* n more environment failures happen in this step
Fault(n) == faults + n <= MaxFaults /\ faults' = faults + n

\* A directory whose deletion failed in the latest sweep failing again is
\* the same environment failure, not a new one.
NewFailures(failing) == failing \ lastSweep.failed

RunEnded(r) == closeEvt[r] # <<>> \/ phase[r] = "threw"

RECURSIVE ChunksUpTo(_)
ChunksUpTo(n) ==
    IF n = 0 THEN 0
    ELSE ChunksUpTo(n - 1) +
         Cardinality({i \in 1..Len(published[n]) : published[n][i] = "chunk"})

\* { id: runId, baseUrl, filename: file.originalname, paths: { runPath, workPath } }:
\* the paths are built from the id, the other two come from the request
NoRun == [id |-> 0, baseUrl |-> "", filename |-> "", paths |-> 0]
RunObject(id) == [id |-> id, baseUrl |-> "http://app:3000", filename |-> "upload.zip", paths |-> id]

\* runs.set(runId, {...})
RunsSet_EveryKey(f, id) == [r \in RunIds |-> RunObject(id)]
RunsSet(f, id) == [f EXCEPT ![id] = RunObject(id)]

\* nothing asked yet
NotAsked == [asked |-> FALSE]

InitQueries ==
    /\ issued = <<>>
    /\ listing = NotAsked
    /\ tree = [exists |-> FALSE, readable |-> TRUE, entries |-> <<>>]
    /\ videos = NotAsked
    /\ screenshots = NotAsked
    /\ baseUrl = ""
    /\ workFiles = {}
    /\ cypressCommand = <<>>

InitIo ==
    /\ chunk = <<>>
    /\ wire = <<>>
    /\ signalled = FALSE
    /\ exited = FALSE

InitRuns ==
    /\ runFields = [r \in RunIds |-> NoRun]
    /\ variant \in {"original", "improved"}
    /\ crashed = FALSE
    /\ clock = 0
    /\ nextId = 1
    /\ runs = <<>>
    /\ status = [r \in RunIds |-> "none"]
    /\ statusHist = [r \in RunIds |-> <<>>]
    /\ createdAt = [r \in RunIds |-> 0]
    /\ phase = [r \in RunIds |-> "none"]
    /\ dirExists = [r \in RunIds |-> FALSE]
    /\ exitFile = [r \in RunIds |-> "absent"]
    /\ closeEvt = [r \in RunIds |-> <<>>]
    /\ clientKeys = {}
    /\ clientList = [r \in RunIds |-> <<>>]
    /\ sinkRun = [s \in SinkIds |-> 0]
    /\ sinkState = [s \in SinkIds |-> "unused"]
    /\ received = [s \in SinkIds |-> <<>>]
    /\ joined = [s \in SinkIds |-> 0]
    /\ early = [s \in SinkIds |-> FALSE]
    /\ published = [r \in RunIds |-> <<>>]
    /\ runCalls = [r \in RunIds |-> 0]
    /\ spawns = [r \in RunIds |-> 0]
    /\ lastSweep = NoSweep
    /\ faults = 0

Init == InitRuns /\ InitQueries /\ InitIo

\* ------------------------------------------------------------- POST /start
\* Improved server: register the run as queued, schedule runCypress with
\* setImmediate, then call cleanupOldRuns().
PostStartImproved(t, failing) ==
    LET id == nextId
        ca == [createdAt EXCEPT ![id] = t]
        reg == Append(runs, id)
        gone == Evicted(ca, reg, failing)
    IN  /\ ~crashed
        /\ UNCHANGED <<queryVars, ioVars>>
        /\ runFields' = RunsSet(runFields, id)
        /\ Fault(Cardinality(NewFailures(failing)))
        /\ variant = "improved"
        /\ t >= clock
        /\ failing \subseteq Range(ToDelete(ca, reg))
        /\ clock' = t
        /\ nextId' = nextId + 1
        /\ createdAt' = ca
        /\ SetStatus(id, "queued")
        /\ phase' = [phase EXCEPT ![id] = "scheduled"]
        /\ runs' = DeleteAll(reg, gone)
        /\ dirExists' = [r \in RunIds |->
                           IF r \in gone THEN FALSE
                           ELSE IF r = id THEN TRUE ELSE dirExists[r]]
        /\ lastSweep' = IF ToDelete(ca, reg) = <<>> THEN lastSweep
                        ELSE [removed |-> gone, failed |-> failing]
        /\ NoBroadcast
        /\ UNCHANGED <<variant, crashed, exitFile, closeEvt, clientKeys, clientList,
                       sinkRun, sinkState, joined, early, runCalls, spawns>>

\* Original server: register the run, then call runCypress(runId) directly;
\* the call runs up to its first await inside the request handler.
PostStartOriginal(t, setupOk) ==
    LET id == nextId
    IN  /\ ~crashed
        /\ UNCHANGED <<queryVars, ioVars>>
        /\ runFields' = RunsSet(runFields, id)
        /\ Fault(IF setupOk THEN 0 ELSE 1)
        /\ variant = "original"
        /\ t >= clock
        /\ clock' = t
        /\ nextId' = nextId + 1
        /\ createdAt' = [createdAt EXCEPT ![id] = t]
        /\ runs' = Append(runs, id)
        /\ dirExists' = [dirExists EXCEPT ![id] = TRUE]
        /\ runCalls' = [runCalls EXCEPT ![id] = @ + 1]
        /\ SetStatus2(id, "queued", StartStatus)
        \* a throwing mkdirSync rejects the un-awaited promise of runCypress
        /\ phase' = [phase EXCEPT ![id] = IF setupOk THEN "setup" ELSE "threw"]
        /\ crashed' = ~setupOk
        /\ NoBroadcast
        /\ UNCHANGED <<variant, exitFile, closeEvt, clientKeys, clientList, sinkRun,
                       sinkState, joined, early, spawns, lastSweep>>

\* POST /start whose workspace cannot be materialized: zip.extractAllTo or
\* fs.writeFileSync throws after the run directory was created and before
\* runs.set. The improved server answers 500 from its catch block; the
\* original handler has none, its rejection is unhandled.
PostStartRejected(t) ==
    LET id == nextId
    IN  /\ ~crashed
        /\ UNCHANGED <<queryVars, ioVars, runFields>>
        /\ Fault(1)
        /\ t >= clock
        /\ clock' = t
        /\ nextId' = nextId + 1
        /\ dirExists' = [dirExists EXCEPT ![id] = TRUE]
        /\ phase' = [phase EXCEPT ![id] = "rejected"]
        /\ crashed' = (variant = "original")
        /\ NoBroadcast
        /\ UNCHANGED <<variant, runs, status, statusHist, createdAt, exitFile, closeEvt,
                       clientKeys, clientList, sinkRun, sinkState, joined, early,
                       runCalls, spawns, lastSweep>>

\* POST /start that the server refuses because of the request itself:
\*   "noFile"   no file part in the upload
\*   "badType"  a file name that is neither .zip nor .cy.{js,ts,mjs}
\*   "badUrl"   a baseUrl that is no http(s) URL
\* index-improved.js answers before it generates an id (400 for noFile and
\* badUrl, the error middleware after the multer fileFilter for badType).
\* index.js reads req.file.originalname first (a TypeError without a file,
\* in an async handler: an unhandled rejection), creates the run directory
\* and only then looks at the file name; it does not look at baseUrl, so it
\* refuses no request for it.
PostStartInvalid(t, why) ==
    /\ ~crashed
    /\ UNCHANGED <<queryVars, ioVars, runFields>>
    /\ t >= clock
    /\ why \in {"noFile", "badType", "badUrl"}
    /\ variant = "original" => why # "badUrl"
    /\ IF variant = "original" /\ why = "badType"
       THEN /\ clock' = t
            /\ nextId' = nextId + 1
            /\ dirExists' = [dirExists EXCEPT ![nextId] = TRUE]
            /\ phase' = [phase EXCEPT ![nextId] = "invalid"]
       ELSE UNCHANGED <<clock, nextId, dirExists, phase>>
    /\ crashed' = (variant = "original" /\ why = "noFile")
    /\ NoBroadcast
    /\ UNCHANGED <<variant, runs, status, statusHist, createdAt, exitFile, closeEvt,
                   clientKeys, clientList, sinkRun, sinkState, joined, early,
                   runCalls, spawns, lastSweep, faults>>

\* --------------------------------------------------------------- runCypress
\* setImmediate(() => runCypress(runId)) has not run yet
ImmediatePending_Interval(r) == phase[r] \in {"scheduled", "setup"}
ImmediatePending(r) == phase[r] = "scheduled"

\* Improved server: the scheduled call, up to `await findConfigFile(...)`.
RunCypressStart(r, setupOk) ==
    /\ ~crashed
    /\ UNCHANGED <<queryVars, ioVars, runFields>>
    /\ Fault(IF setupOk THEN 0 ELSE 1)
    /\ variant = "improved"
    /\ ImmediatePending(r)
    /\ runCalls' = [runCalls EXCEPT ![r] = @ + 1]
    /\ IF r \notin Range(runs)
       THEN \* run not found: return
            /\ setupOk
            /\ phase' = [phase EXCEPT ![r] = "notFound"]
            /\ NoBroadcast
            /\ UNCHANGED <<status, statusHist, dirExists>>
       ELSE IF setupOk
       THEN /\ SetStatus(r, StartStatus)
            /\ dirExists' = [dirExists EXCEPT ![r] = TRUE]
            /\ phase' = [phase EXCEPT ![r] = "setup"]
            /\ NoBroadcast
       ELSE \* mkdirSync throws: the catch block
            /\ SetStatus2(r, StartStatus, "failed")
            /\ phase' = [phase EXCEPT ![r] = "threw"]
            /\ Broadcast(r, "ERROR")
            /\ UNCHANGED dirExists
    /\ UNCHANGED <<variant, crashed, clock, nextId, runs, createdAt, exitFile, closeEvt,
                   clientKeys, clientList, sinkRun, sinkState, joined, early, spawns,
                   lastSweep>>

\* The continuation after `await findConfigFile`: build the command, spawn.
\*   "ok"      the process was spawned
\*   "enoent"  spawn fails asynchronously ('error' then 'close' will follow)
\*   "throws"  findConfigFile rejects or spawn throws synchronously
RunCypressSpawn(r, outcome) ==
    /\ ~crashed
    /\ UNCHANGED <<queryVars, ioVars, runFields>>
    /\ Fault(IF outcome = "ok" \/ ~dirExists[r] THEN 0 ELSE 1)
    /\ phase[r] = "setup"
    /\ outcome \in {"ok", "enoent", "throws"}
    \* spawn with a cwd that no longer exists reports ENOENT
    /\ ~dirExists[r] => outcome = "enoent"
    /\ CASE outcome = "ok" ->
              /\ spawns' = [spawns EXCEPT ![r] = @ + 1]
              /\ phase' = [phase EXCEPT ![r] = "spawned"]
              /\ NoBroadcast
              /\ UNCHANGED <<status, statusHist, crashed>>
         [] outcome = "enoent" ->
              /\ spawns' = [spawns EXCEPT ![r] = @ + 1]
              /\ phase' = [phase EXCEPT ![r] = "spawnFailed"]
              /\ NoBroadcast
              /\ UNCHANGED <<status, statusHist, crashed>>
         [] outcome = "throws" ->
              /\ phase' = [phase EXCEPT ![r] = "threw"]
              /\ UNCHANGED spawns
              /\ IF variant = "improved"
                 THEN /\ SetStatus(r, "failed")
                      /\ Broadcast(r, "ERROR")
                      /\ UNCHANGED crashed
                 ELSE \* unhandled rejection
                      /\ crashed' = TRUE
                      /\ NoBroadcast
                      /\ UNCHANGED <<status, statusHist>>
    /\ UNCHANGED <<variant, clock, nextId, runs, createdAt, dirExists, exitFile,
                   closeEvt, clientKeys, clientList, sinkRun, sinkState, joined, early,
                   runCalls, lastSweep>>

\* ---------------------------------------------------- process event handlers
\* cypressProcess.stdout.on('data') / stderr.on('data')
ProcOutput(r) ==
    /\ ~crashed
    /\ UNCHANGED <<queryVars, ioVars, runFields>>
    /\ Fault(0)
    /\ phase[r] = "spawned"
    /\ ChunksUpTo(MaxRuns) < MaxChunks
    /\ Broadcast(r, "chunk")
    /\ crashed' = BroadcastThrows(r)
    /\ UNCHANGED <<variant, clock, nextId, runs, status, statusHist, createdAt, phase,
                   dirExists, exitFile, closeEvt, clientKeys, clientList, sinkRun,
                   sinkState, joined, early, runCalls, spawns, lastSweep>>

\* cypressProcess.on('error'): only the improved server registers a listener;
\* an 'error' event without a listener is thrown.
ProcError(r) ==
    /\ ~crashed
    /\ UNCHANGED <<queryVars, ioVars, runFields>>
    /\ Fault(0)
    /\ phase[r] = "spawnFailed"
    /\ IF variant = "improved"
       THEN /\ SetStatus(r, "failed")
            /\ Broadcast(r, "ERROR")
            /\ phase' = [phase EXCEPT ![r] = "errored"]
            /\ UNCHANGED crashed
       ELSE /\ crashed' = TRUE
            /\ phase' = [phase EXCEPT ![r] = "unhandledError"]
            /\ NoBroadcast
            /\ UNCHANGED <<status, statusHist>>
    /\ UNCHANGED <<variant, clock, nextId, runs, createdAt, dirExists, exitFile,
                   closeEvt, clientKeys, clientList, sinkRun, sinkState, joined, early,
                   runCalls, spawns, lastSweep>>

\* cypressProcess.on('close', code): status, exit-code.txt, RUN_DONE, timer.
\* The handler is left by an exception when code.toString() throws, when
\* writeFileSync finds no run directory, or when a write in the original
\* broadcast throws.
ProcClose(r, code) ==
    /\ ~crashed
    /\ UNCHANGED <<queryVars, ioVars, runFields>>
    /\ Fault(IF code = NullCode THEN 1 ELSE 0)
    /\ \/ phase[r] = "spawned" /\ code \in ExitCodes
       \/ phase[r] = "errored" /\ code = SpawnErrorCode
    /\ closeEvt' = [closeEvt EXCEPT ![r] = <<code>>]
    /\ SetStatus(r, CloseStatus(code))
    /\ IF ToStringThrows(code) \/ ~dirExists[r]
       THEN /\ crashed' = TRUE
            /\ phase' = [phase EXCEPT ![r] = "closeThrew"]
            /\ NoBroadcast
            /\ UNCHANGED exitFile
       ELSE /\ exitFile' = [exitFile EXCEPT ![r] = NumToString(code.n)]
            /\ Broadcast(r, "RUN_DONE")
            /\ crashed' = BroadcastThrows(r)
            /\ phase' = [phase EXCEPT ![r] =
                           IF BroadcastThrows(r) THEN "closeThrew" ELSE "closed"]
    /\ UNCHANGED <<variant, clock, nextId, runs, createdAt, dirExists, clientKeys,
                   clientList, sinkRun, sinkState, joined, early, runCalls, spawns,
                   lastSweep>>

\* setTimeout is called as the last statement of the close handler, after
\* broadcast(RUN_DONE) has returned.
TimerArmed_AtSpawn(r) == phase[r] \in {"spawned", "closed"}
TimerArmed(r) == phase[r] = "closed"

\* The setTimeout(..., 250) callback of the close handler: end every client
\* of the run, then clients.delete(runId).
\* The registry entries the timer callback deletes: its delete is on the
\* clients Map, the runs Map is not touched.
TimerRemoves_Run(r) == {r}
TimerRemoves(r) == {}

GraceTimer(r) ==
    /\ ~crashed
    /\ UNCHANGED <<queryVars, ioVars, runFields>>
    /\ Fault(0)
    /\ TimerArmed(r)
    /\ sinkState' = [s \in SinkIds |->
                       IF s \in Range(RunClients(r)) /\ sinkState[s] \in {"open", "broken"}
                       THEN "ended" ELSE sinkState[s]]
    /\ clientKeys' = clientKeys \ {r}
    /\ clientList' = [clientList EXCEPT ![r] = <<>>]
    /\ phase' = [phase EXCEPT ![r] = "finished"]
    /\ runs' = DeleteAll(runs, TimerRemoves(r))
    /\ NoBroadcast
    /\ UNCHANGED <<variant, crashed, clock, nextId, status, statusHist, createdAt,
                   dirExists, exitFile, closeEvt, sinkRun, joined, early, runCalls,
                   spawns, lastSweep>>

\* ------------------------------------------------------ GET /runs/:id/stream
\* The ids a request can name: one that POST /start has handed out, or a
\* string that no submission ever generates.
Nameable(r) == r < nextId \/ r > StreamRuns

\* The improved server answers 404 for an id that is not in the registry;
\* the original handler does not look at the registry.
StreamAcceptsIn(v, r) ==
    IF v = "improved" THEN r \in Range(runs) ELSE TRUE

StreamAccepts(r) == StreamAcceptsIn(variant, r)

\* Response streams are taken in order: s is the first unused one.
StreamConnect(s, r) ==
    /\ ~crashed
    /\ UNCHANGED <<queryVars, ioVars, runFields>>
    /\ Fault(0)
    /\ sinkState[s] = "unused"
    /\ \A x \in SinkIds : x < s => sinkState[x] # "unused"
    /\ Nameable(r)
    /\ StreamAccepts(r)
    /\ clientKeys' = clientKeys \cup {r}
    /\ clientList' = [clientList EXCEPT ![r] = Append(RunClients(r), s)]
    /\ sinkRun' = [sinkRun EXCEPT ![s] = r]
    /\ sinkState' = [sinkState EXCEPT ![s] = "open"]
    /\ joined' = [joined EXCEPT ![s] = Len(published[r])]
    /\ early' = [early EXCEPT ![s] = ~RunEnded(r)]
    /\ NoBroadcast
    /\ UNCHANGED <<variant, crashed, clock, nextId, runs, status, statusHist, createdAt,
                   phase, dirExists, exitFile, closeEvt, runCalls, spawns, lastSweep>>

\* A connected socket goes bad: from now on client.write throws.
SinkBreak(s) ==
    /\ ~crashed
    /\ UNCHANGED <<queryVars, ioVars, runFields>>
    /\ Fault(1)
    /\ sinkState[s] = "open"
    /\ sinkState' = [sinkState EXCEPT ![s] = "broken"]
    /\ NoBroadcast
    /\ UNCHANGED <<variant, crashed, clock, nextId, runs, status, statusHist, createdAt,
                   phase, dirExists, exitFile, closeEvt, clientKeys, clientList, sinkRun,
                   joined, early, runCalls, spawns, lastSweep>>

\* req.on('close'): the client went away, or the connection closed after the
\* server ended the response.
ReqClose(s) ==
    /\ ~crashed
    /\ UNCHANGED <<queryVars, ioVars, runFields>>
    /\ Fault(0)
    /\ sinkState[s] \in {"open", "broken", "ended"}
    /\ clientKeys' = clientKeys \cup {sinkRun[s]}
    /\ clientList' = [clientList EXCEPT ![sinkRun[s]] = Without(RunClients(sinkRun[s]), s)]
    /\ sinkState' = [sinkState EXCEPT ![s] = "closed"]
    \* the stream is gone: what it had received is no longer observed
    /\ sinkRun' = [sinkRun EXCEPT ![s] = 0]
    /\ received' = [received EXCEPT ![s] = <<>>]
    /\ joined' = [joined EXCEPT ![s] = 0]
    /\ early' = [early EXCEPT ![s] = FALSE]
    /\ UNCHANGED published
    /\ UNCHANGED <<variant, crashed, clock, nextId, runs, status, statusHist, createdAt,
                   phase, dirExists, exitFile, closeEvt, runCalls, spawns, lastSweep>>

\* --------------------------------------------------------- periodic cleanup
\* setInterval(() => cleanupOldRuns(), ...)
CleanupTick(failing) ==
    LET gone == Evicted(createdAt, runs, failing)
    IN  /\ ~crashed
        /\ UNCHANGED <<queryVars, ioVars, runFields>>
        /\ Fault(Cardinality(NewFailures(failing)))
        /\ variant = "improved"
        /\ failing \subseteq Range(ToDelete(createdAt, runs))
        /\ runs' = DeleteAll(runs, gone)
        /\ dirExists' = [r \in RunIds |-> IF r \in gone THEN FALSE ELSE dirExists[r]]
        /\ lastSweep' = IF ToDelete(createdAt, runs) = <<>> THEN lastSweep
                        ELSE [removed |-> gone, failed |-> failing]
        /\ NoBroadcast
        /\ UNCHANGED <<variant, crashed, clock, nextId, status, statusHist, createdAt,
                       phase, exitFile, closeEvt, clientKeys, clientList, sinkRun,
                       sinkState, joined, early, runCalls, spawns>>

\* ------------------------------------------------------------ specifications
\* POST /start, for at most n submissions, new Date() reading one of `times`
Submit(n, times) ==
    /\ nextId <= n
    /\ \/ \E t \in times, failing \in SUBSET RunIds : PostStartImproved(t, failing)
       \/ \E t \in times, setupOk \in BOOLEAN : PostStartOriginal(t, setupOk)
       \/ \E t \in times : PostStartRejected(t)

\* runCypress and the handlers it registers
Lifecycle ==
    \/ \E r \in RunIds, setupOk \in BOOLEAN : RunCypressStart(r, setupOk)
    \/ \E r \in RunIds, outcome \in {"ok", "enoent", "throws"} : RunCypressSpawn(r, outcome)
    \/ \E r \in RunIds : ProcError(r)
    \/ \E r \in RunIds, code \in ExitCodes \cup {SpawnErrorCode} : ProcClose(r, code)

Sweep == \E failing \in SUBSET RunIds : CleanupTick(failing)

\* process output, the SSE subscribers and the timer that ends them
Streams ==
    \/ \E r \in RunIds : ProcOutput(r)
    \/ \E r \in RunIds : GraceTimer(r)
    \/ \E s \in SinkIds, r \in RunIds : StreamConnect(s, r)
    \/ \E s \in SinkIds : SinkBreak(s)
    \/ \E s \in SinkIds : ReqClose(s)

\* The whole service, with StreamRuns submissions, each in a later
\* millisecond than the one before.
Next == Submit(StreamRuns, {clock + 1}) \/ Lifecycle \/ Sweep \/ Streams

Spec == Init /\ [][Next]_vars

\* The registry and the run lifecycle alone, with MaxRuns submissions that
\* may fall into the same millisecond: no subscriber connects and the process
\* output is not looked at (the stream handlers, broadcast and the timer that
\* ends the subscribers write neither the registry nor the disk).
NextRegistry ==
    Submit(MaxRuns, {t \in {clock, clock + 1} : t <= MaxClock}) \/ Lifecycle \/ Sweep

SpecRegistry == Init /\ [][NextRegistry]_vars

\* The registry with refused submissions as well.
NextStart ==
    \/ NextRegistry
    \/ /\ nextId <= MaxRuns
       /\ \E t \in {x \in {clock, clock + 1} : x <= MaxClock},
             why \in {"noFile", "badType", "badUrl"} : PostStartInvalid(t, why)

SpecStart == Init /\ [][NextStart]_vars

\* The steps of one run that happen without further input: the setImmediate
\* callback, the continuation of runCypress after its await, and the
\* 'error' and 'close' events of the process.
RunSteps(r) ==
    \/ \E setupOk \in BOOLEAN : RunCypressStart(r, setupOk)
    \/ \E outcome \in {"ok", "enoent", "throws"} : RunCypressSpawn(r, outcome)
    \/ ProcError(r)
    \/ \E code \in ExitCodes \cup {SpawnErrorCode} : ProcClose(r, code)

\* Scheduled callbacks run and every spawned process closes.
SpecRegistryLive == SpecRegistry /\ \A r \in RunIds : WF_vars(RunSteps(r))

\* ------------------------------------------------------------------ shutdown
\* process.on('SIGTERM' / 'SIGINT'): server.close(callback). The server stops
\* accepting connections; the callback is the listener of the server's
\* 'close' event. index.js installs no handler: the signal ends the process.
Signal ==
    /\ ~crashed
    /\ ~signalled
    /\ signalled' = TRUE
    /\ exited' = (variant = "original")
    /\ UNCHANGED <<chunk, wire>>
    /\ UNCHANGED <<runVars, queryVars, runFields>>

\* a connection the server still holds: an event stream it has not ended
Connected(s) == sinkState[s] \in {"open", "broken"}

\* The 'close' event of the server, emitted once no connection is left:
\* logger.info('Server closed'); process.exit(0)
ServerClosed ==
    /\ ~crashed
    /\ signalled
    /\ \A s \in SinkIds : ~Connected(s)
    /\ exited' = TRUE
    /\ UNCHANGED <<chunk, wire, signalled>>
    /\ UNCHANGED <<runVars, queryVars, runFields>>

\* The service up to and after a signal: requests are served until the
\* signal, the runs in flight, their output, timers and the connections go
\* on until the process exits.
NextShutdown ==
    \/ ~exited /\ ~signalled /\ Submit(ShutdownRuns, {clock + 1})
    \/ ~exited /\ ~signalled /\ \E s \in SinkIds, r \in RunIds : StreamConnect(s, r)
    \/ ~exited /\ Lifecycle
    \/ ~exited /\ \E r \in RunIds : ProcOutput(r)
    \/ ~exited /\ \E r \in RunIds : GraceTimer(r)
    \/ ~exited /\ \E s \in SinkIds : SinkBreak(s)
    \/ ~exited /\ \E s \in SinkIds : ReqClose(s)
    \/ ~exited /\ Signal
    \/ ~exited /\ ServerClosed

\* Callbacks run, processes close, and a connection whose response the
\* server has ended closes; a subscriber is free to stay connected.
SpecShutdown ==
    /\ Init
    /\ [][NextShutdown]_vars
    /\ WF_vars(~exited /\ ServerClosed)
    /\ \A r \in RunIds : WF_vars(~exited /\ (RunSteps(r) \/ GraceTimer(r)))
    /\ \A s \in SinkIds : WF_vars(~exited /\ sinkState[s] = "ended" /\ ReqClose(s))

\* ------------------------------------------------------------------ GET /runs
\* The handler sorts the values of the runs Map with the comparator of the
\* sweep and maps each run to its record, calling the artifact functions.
\* walkThrows: a readdirSync / statSync of an artifact function throws; the
\* functions of the improved server catch that, those of the original do not
\* and the request ends in the error response of express.
GetRuns(walkThrows) ==
    /\ ~crashed
    /\ walkThrows => \E r \in Range(runs) : dirExists[r] /\ phase[r] # "scheduled"
    /\ listing' = IF variant = "original" /\ walkThrows
                  THEN [asked |-> TRUE, ok |-> FALSE, runs |-> <<>>, registry |-> runs]
                  ELSE [asked |-> TRUE, ok |-> TRUE, runs |-> SortRuns(createdAt, runs),
                        registry |-> runs]
    /\ UNCHANGED <<issued, tree, videos, screenshots, baseUrl, workFiles, cypressCommand>>
    /\ UNCHANGED <<runVars, ioVars, runFields>>

\* submissions, sweeps and listings
NextQueries ==
    \/ Submit(MaxRuns, {t \in {clock, clock + 1} : t <= MaxClock})
    \/ Sweep
    \/ \E walkThrows \in BOOLEAN : GetRuns(walkThrows)

SpecQueries == Init /\ [][NextQueries]_vars

\* ---------------------------------------------------------- artifact queries
\* A directory entry: a file <name>.<ext> or a sub-folder <name> with its own
\* entries, in the order readdirSync returns them. readable = FALSE: the
\* statSync of the entry (or the readdirSync of the folder) throws, because
\* the entry disappeared or may not be read.
Exts == {"mp4", "MP4", "png", "txt"}

FileEntries ==
    [kind : {"file"}, name : 1..MaxNames, ext : Exts, readable : BOOLEAN,
     entries : {<<>>}]

\* the listings of at most n entries of E, no two with the same name
Listings(E, n) ==
    {l \in UNION {[1..k -> E] : k \in 0..n} :
        \A i, j \in 1..Len(l) :
            i # j => <<l[i].kind, l[i].name, l[i].ext>> # <<l[j].kind, l[j].name, l[j].ext>>}

DirEntries ==
    [kind : {"dir"}, name : 1..MaxNames, ext : {""}, readable : BOOLEAN,
     entries : Listings(FileEntries, MaxSubEntries)]

\* what can be found at runs/<id>/cypress/videos (or .../screenshots)
Trees ==
    {[exists |-> TRUE, readable |-> rd, entries |-> l] :
        rd \in BOOLEAN, l \in Listings(FileEntries \cup DirEntries, MaxEntries)}
    \cup {[exists |-> FALSE, readable |-> TRUE, entries |-> <<>>]}

\* String.prototype.toLowerCase on the extensions of the model
Lower(ext) == CASE ext = "MP4" -> "mp4" [] OTHER -> ext

\* file.match(/\.mp4$/i) and file.match(/\.(png|jpg|jpeg)$/i)
Matches(what, ext) ==
    IF what = "videos" THEN Lower(ext) = "mp4"
    ELSE Lower(ext) \in {"png", "jpg", "jpeg"}

\* file.endsWith('.mp4')
EndsWithMp4(ext) == ext = "mp4"

Threw == [asked |-> TRUE, threw |-> TRUE, paths |-> <<>>]
Returned(paths) == [asked |-> TRUE, threw |-> FALSE, paths |-> paths]

\* walkDir(dir, baseUrl): statSync every entry in listing order, descend
\* into folders, push `${baseUrl}/${file}` for the matching files. The
\* result is what was pushed, unless a call threw on the way.
RECURSIVE Walk(_, _, _)
Walk(entries, base, what) ==
    IF entries = <<>> THEN Returned(<<>>)
    ELSE LET e == Head(entries)
             here == IF ~e.readable THEN Threw
                     ELSE IF e.kind = "dir" THEN Walk(e.entries, Append(base, e.name), what)
                     ELSE IF Matches(what, e.ext)
                          THEN Returned(<<[dir |-> base, name |-> e.name, ext |-> e.ext]>>)
                          ELSE Returned(<<>>)
             rest == Walk(Tail(entries), base, what)
         IN  IF here.threw \/ rest.threw THEN Threw
             ELSE Returned(here.paths \o rest.paths)

\* readdirSync(videosPath).filter(file => file.endsWith('.mp4')).map(...)
RECURSIVE FlatMp4(_)
FlatMp4(entries) ==
    IF entries = <<>> THEN <<>>
    ELSE (IF EndsWithMp4(Head(entries).ext)
          THEN <<[dir |-> <<>>, name |-> Head(entries).name, ext |-> Head(entries).ext]>>
          ELSE <<>>) \o FlatMp4(Tail(entries))

\* try { ... } catch (error) { return []; }
Caught(result) == IF result.threw THEN Returned(<<>>) ELSE result

\* the walk from the artifact folder itself
WalkFrom(what) == IF ~tree.readable THEN Threw ELSE Walk(tree.entries, <<>>, what)

\* getRunVideos: recursive and unguarded in index.js, one level deep inside
\* a try/catch in index-improved.js
GetRunVideos ==
    /\ videos' =
          IF ~tree.exists THEN Returned(<<>>)
          ELSE IF variant = "original" THEN WalkFrom("videos")
          ELSE Caught(IF ~tree.readable THEN Threw ELSE Returned(FlatMp4(tree.entries)))
    /\ UNCHANGED <<issued, listing, tree, screenshots, baseUrl, workFiles, cypressCommand>>
    /\ UNCHANGED <<runVars, ioVars, runFields>>

\* getRunScreenshots: the recursive walk in both servers, inside a try/catch
\* in index-improved.js
GetRunScreenshots ==
    /\ screenshots' =
          IF ~tree.exists THEN Returned(<<>>)
          ELSE IF variant = "original" THEN WalkFrom("screenshots")
          ELSE Caught(WalkFrom("screenshots"))
    /\ UNCHANGED <<issued, listing, tree, videos, baseUrl, workFiles, cypressCommand>>
    /\ UNCHANGED <<runVars, ioVars, runFields>>

InitArtifacts ==
    /\ InitRuns
    /\ InitIo
    /\ issued = <<>>
    /\ listing = NotAsked
    /\ tree \in Trees
    /\ videos = NotAsked
    /\ screenshots = NotAsked
    /\ baseUrl = ""
    /\ workFiles = {}
    /\ cypressCommand = <<>>

NextArtifacts == GetRunVideos \/ GetRunScreenshots

SpecArtifacts == InitArtifacts /\ [][NextArtifacts]_vars

\* ------------------------------------------------------ the cypress command
\* An element of the argument list: a plain word (text), or a template
\* string of key=value items joined by commas (pairs), which may end in a
\* comma.
Arg(text) == [text |-> text, pairs |-> <<>>, comma |-> FALSE]
ConfigValue(pairs, comma) == [text |-> "", pairs |-> pairs, comma |-> comma]

\* Array.prototype.indexOf: the first position holding x, 0 when absent
IndexOf(s, x) ==
    IF \E i \in 1..Len(s) : s[i] = x
    THEN CHOOSE i \in 1..Len(s) : s[i] = x /\ \A j \in 1..(i - 1) : s[j] # x
    ELSE 0

\* Array.prototype.splice(start, 0, x) with start counted in elements
\* before the insertion point
Splice(s, start, x) == SubSeq(s, 1, start) \o <<x>> \o SubSeq(s, start + 1, Len(s))

NoFile == "null"
\* a different probing order
ConfigFiles_JsonFirst ==
    <<"cypress.json", "cypress.config.mjs", "cypress.config.ts",
      "cypress.config.js", "cypress.config.cjs">>

ConfigFiles ==
    <<"cypress.config.mjs", "cypress.config.ts", "cypress.config.js",
      "cypress.config.cjs", "cypress.json">>

\* for (const file of configFiles) { if (glob(...).length > 0) return files[0]; }
\* return null;
RECURSIVE FindFrom(_, _)
FindFrom(i, present) ==
    IF i > Len(ConfigFiles) THEN NoFile
    ELSE IF ConfigFiles[i] \in present THEN ConfigFiles[i]
    ELSE FindFrom(i + 1, present)

FindConfigFile(present) == FindFrom(1, present)

SpecGlob == "work/cypress/e2e/**/*.cy.*"

BaseCommand ==
    <<Arg("run"), Arg("--project"), Arg("work"), Arg("--browser"), Arg("chrome"),
      Arg("--headless"), Arg("--config"),
      ConfigValue(<<<<"videosFolder", "cypress/videos">>,
                    <<"screenshotsFolder", "cypress/screenshots">>>>, FALSE),
      Arg("--reporter"), Arg("json"), Arg("--reporter-options"),
      ConfigValue(<<<<"output", "results/results.json">>>>, FALSE)>>

\* if (run.baseUrl): index.js pushes a second --config with baseUrl=<url>;
\* index-improved.js splices `baseUrl=<url>,` in after the first --config
WithBaseUrl(v, url) ==
    IF url = "" THEN BaseCommand
    ELSE IF v = "original"
         THEN BaseCommand \o <<Arg("--config"), ConfigValue(<<<<"baseUrl", url>>>>, FALSE)>>
         ELSE Splice(BaseCommand, IndexOf(BaseCommand, Arg("--config")),
                     ConfigValue(<<<<"baseUrl", url>>>>, TRUE))

WithConfigFile(cmd, present) ==
    IF FindConfigFile(present) # NoFile
    THEN cmd \o <<Arg("--config-file"), Arg(FindConfigFile(present))>>
    ELSE cmd \o <<Arg("--spec"), Arg(SpecGlob)>>

\* runCypress, from the argument list to the spawn
RunCypressCommand ==
    /\ cypressCommand = <<>>
    /\ cypressCommand' = WithConfigFile(WithBaseUrl(variant, baseUrl), workFiles)
    /\ UNCHANGED <<issued, listing, tree, videos, screenshots, baseUrl, workFiles>>
    /\ UNCHANGED <<runVars, ioVars, runFields>>

InitCommand ==
    /\ InitRuns
    /\ InitIo
    /\ issued = <<>>
    /\ listing = NotAsked
    /\ tree = [exists |-> FALSE, readable |-> TRUE, entries |-> <<>>]
    /\ videos = NotAsked
    /\ screenshots = NotAsked
    /\ baseUrl \in {"", "http://app:3000"}
    /\ workFiles \in SUBSET Range(ConfigFiles)
    /\ cypressCommand = <<>>

NextCommand == RunCypressCommand

SpecCommand == InitCommand /\ [][NextCommand]_vars

\* ------------------------------------------------------ the text of an event
\* A chunk is data.toString(): a string, here a sequence of characters.
\* "a" stands for a letter, "3" for a digit or ';', "ESC" for \x1B, "LF" for
\* a line break.
Chars == {"a", "3", "[", "?", "ESC", "LF"}
Chunks == UNION {[1..k -> Chars] : k \in 0..MaxChunkLen}

\* [a-zA-Z] and [0-9;]
IsLetter(c) == c = "a"
IsParam(c) == c = "3"

\* the first position from p on that holds no [0-9;] character
RECURSIVE ParamsEnd(_, _)
ParamsEnd(s, p) == IF p <= Len(s) /\ IsParam(s[p]) THEN ParamsEnd(s, p + 1) ELSE p

\* Length of the match of /\x1B\[[0-9;]*[a-zA-Z]/ at the start of s, or of
\* /\x1B\[[\?]?[0-9;]*[a-zA-Z]/ when optQ; 0 when there is none.
MatchLen(s, optQ) ==
    IF Len(s) >= 2 /\ s[1] = "ESC" /\ s[2] = "["
    THEN LET p == IF optQ /\ Len(s) >= 3 /\ s[3] = "?" THEN 4 ELSE 3
             e == ParamsEnd(s, p)
         IN  IF e <= Len(s) /\ IsLetter(s[e]) THEN e ELSE 0
    ELSE 0

\* String.prototype.replace(regex with the g flag, '')
RECURSIVE Replace(_, _)
Replace(s, optQ) ==
    IF s = <<>> THEN <<>>
    ELSE IF MatchLen(s, optQ) > 0
         THEN Replace(SubSeq(s, MatchLen(s, optQ) + 1, Len(s)), optQ)
         ELSE <<Head(s)>> \o Replace(Tail(s), optQ)

\* cleanData of index.js; index-improved.js writes data as it is
CleanData(v, data) == IF v = "original" THEN Replace(Replace(data, FALSE), TRUE) ELSE data

\* `data: ${cleanData}\n\n`
Frame(v, data) == <<"data: ">> \o CleanData(v, data) \o <<"LF", "LF">>

\* broadcast(runId, data) as seen by one connected client: client.write(...)
BroadcastChunk ==
    /\ wire = <<>>
    /\ wire' = Frame(variant, chunk)
    /\ UNCHANGED <<chunk, signalled, exited>>
    /\ UNCHANGED <<runVars, queryVars, runFields>>

InitWire ==
    /\ InitRuns
    /\ InitQueries
    /\ chunk \in Chunks
    /\ wire = <<>>
    /\ signalled = FALSE
    /\ exited = FALSE

NextWire == BroadcastChunk

SpecWire == InitWire /\ [][NextWire]_vars

\* ------------------------------------------------------------ run identifiers
\* `${new Date().toISOString().replace(/[:.]/g, '-')}-${nanoid(6)}`: the
\* millisecond of the request and a random suffix.
NewRunId(t, n) == <<t, n>>

\* the millisecond of the latest submission
LastIssuedAt == IF issued = <<>> THEN 0 ELSE issued[Len(issued)][1]

\* An accepted POST /start as far as the identifier goes: it generates the
\* id and runs mkdirSync(recursive) and runs.set with it, neither of which
\* looks whether the id is already in use.
StartAccepted(t, n) ==
    /\ Len(issued) < MaxRuns
    /\ t >= LastIssuedAt
    /\ issued' = Append(issued, NewRunId(t, n))
    /\ UNCHANGED <<listing, tree, videos, screenshots, baseUrl, workFiles,
                   cypressCommand>>
    /\ UNCHANGED <<runVars, ioVars, runFields>>

NextIds == \E t \in 0..MaxClock, n \in 1..MaxSuffix : StartAccepted(t, n)

SpecIds == Init /\ [][NextIds]_vars

\* ------------------------------------------------------------------ claims
IsRunDone(m) == published[m[1]][m[2]] = "RUN_DONE"

\* what a sink that joined after `from` broadcasts of run r should have got
Expected(r, from) == [i \in 1..(Len(published[r]) - from) |-> <<r, from + i>>]

StatusPaths ==
    {<<"queued">>, <<"queued", "running">>, <<"queued", "running", "done">>,
     <<"queued", "running", "failed">>}

SpawnFailed(r) ==
    \/ phase[r] \in {"spawnFailed", "errored", "unhandledError"}
    \/ closeEvt[r] = <<SpawnErrorCode>>

\* C1: the values a run's status takes are a prefix of queued, running, then
\* one of done / failed; running is skipped only when the spawn failed.
C1_StatusOrder ==
    \A r \in RunIds :
        \/ statusHist[r] = <<>>
        \/ statusHist[r] \in StatusPaths
        \/ statusHist[r] = <<"queued", "failed">> /\ SpawnFailed(r)

\* one run went queued, running, done; another failed through a spawn error
\* followed by its close event
C1_Witness ==
    \E r1, r2 \in RunIds :
        /\ statusHist[r1] = <<"queued", "running", "done">>
        /\ statusHist[r2] = <<"queued", "running", "failed">>
        /\ closeEvt[r2] = <<SpawnErrorCode>>

\* C2: once the process of a run has closed with code c, the status is done
\* exactly when c is 0 and failed for every other code (null included); a
\* done run has no recorded code other than 0, a failed run never has 0.
C2_StatusMatchesCode ==
    \A r \in RunIds :
        /\ closeEvt[r] # <<>> =>
              /\ status[r] = "done" <=> closeEvt[r][1] = IntCode(0)
              /\ status[r] = "failed" <=> closeEvt[r][1] # IntCode(0)
        /\ status[r] = "done" => exitFile[r] \in {"absent", "0"}
        /\ status[r] = "failed" => exitFile[r] # "0"

\* a run closed with 0 and its marker file written, another killed by a signal
C2_Witness ==
    \E r1, r2 \in RunIds :
        /\ closeEvt[r1] = <<IntCode(0)>> /\ exitFile[r1] = "0"
        /\ closeEvt[r2] = <<NullCode>>

\* C3 (as claimed): a subscriber of the improved server that connected before
\* its run ended and has not disconnected has, once the run has ended, been
\* written every broadcast made since it connected, in order, the last of
\* them the run's only RUN_DONE.
C3_AllChunksThenRunDone ==
    \A s \in SinkIds :
        (/\ variant = "improved"
         /\ sinkState[s] \in {"open", "ended"}
         /\ early[s]
         /\ RunEnded(sinkRun[s]))
        => /\ received[s] = Expected(sinkRun[s], joined[s])
           /\ received[s] # <<>>
           /\ IsRunDone(received[s][Len(received[s])])
           /\ Cardinality({i \in 1..Len(received[s]) : IsRunDone(received[s][i])}) = 1

\* C4 (as claimed): a subscriber that connected after its run had completed
\* is not left open once the grace timer of the run has fired: it has been
\* written RUN_DONE or the server has ended it.
C4_LateSubscriberNotLeftOpen ==
    \A s \in SinkIds :
        (/\ sinkState[s] = "open"
         /\ ~early[s]
         /\ phase[sinkRun[s]] = "finished")
        => \E i \in 1..Len(received[s]) : IsRunDone(received[s][i])

\* C5 (as claimed): a step removes a run from the registry only if the run
\* is done or failed.
C5_OnlyTerminalEvicted ==
    [][\A r \in RunIds :
          (r \in Range(runs) /\ r \notin Range(runs')) => status[r] \in {"done", "failed"}]_vars

\* C6 (as claimed): the registry of the improved server never holds more
\* than maxRunsRetention runs between two requests.
C6_AtMostMax ==
    variant = "improved" => Len(runs) <= MaxRunsRetention

\* C6 (amended): the registry holds at most maxRunsRetention runs plus the
\* runs whose directory the latest sweep failed to delete.
C6_AtMostMaxPlusFailed ==
    variant = "improved" =>
        Len(runs) <= MaxRunsRetention + Cardinality(lastSweep.failed)

\* a sweep removed one run and failed on another, which stays registered
C6_Witness ==
    /\ lastSweep.removed # {}
    /\ lastSweep.failed # {}
    /\ Len(runs) = MaxRunsRetention + 1

\* C7 (as claimed): every run a sweep removed has no directory left and is
\* no newer than any run still registered.
C7_OldestEvicted ==
    \A d \in lastSweep.removed :
        /\ ~dirExists[d]
        /\ \A k \in Range(runs) : createdAt[k] >= createdAt[d]

\* C7 (amended): every run a sweep removed has no directory left and is no
\* newer than any run still registered, the runs whose directory the sweep
\* failed to delete excepted.
C7_OldestEvictedUnlessFailed ==
    \A d \in lastSweep.removed :
        /\ ~dirExists[d]
        /\ \A k \in Range(runs) \ lastSweep.failed : createdAt[k] >= createdAt[d]

\* a sweep removed a run and kept a strictly newer one
C7_Witness ==
    \E d \in lastSweep.removed :
        \E k \in Range(runs) \ lastSweep.failed : createdAt[k] > createdAt[d]

\* C8: everything written to a subscriber was broadcast for the run it
\* subscribed to.
C8_NoCrossTalk ==
    \A s \in SinkIds :
        \A i \in 1..Len(received[s]) : received[s][i][1] = sinkRun[s]

\* two runs each have a subscriber that was written one of its run's events
C8_Witness ==
    \E s1, s2 \in SinkIds :
        /\ sinkRun[s1] # 0 /\ sinkRun[s2] # 0 /\ sinkRun[s1] # sinkRun[s2]
        /\ received[s1] # <<>> /\ received[s2] # <<>>
        /\ phase[sinkRun[s1]] = "spawned" /\ phase[sinkRun[s2]] = "spawned"

\* C9 (as claimed): no handler of the improved server is left by an
\* exception that nothing catches.
C9_NoUncaughtException ==
    variant = "improved" => ~crashed

C11_TerminalStatusStable ==
    [][\A r \in RunIds :
          status[r] \in {"done", "failed"} => status'[r] = status[r]]_vars

\* a run was set to failed by the 'error' handler and then saw its 'close'
C11_Witness ==
    \E r \in RunIds :
        /\ closeEvt[r] = <<SpawnErrorCode>>
        /\ phase[r] = "closed"
        /\ status[r] = "failed"
        /\ published[r] = <<"ERROR", "RUN_DONE">>

\* C12 (as claimed): a run has status running only if spawn has been called
\* for it.
C12_RunningOnlyIfSpawned ==
    \A r \in RunIds : status[r] = "running" => spawns[r] >= 1

\* the broadcast of run r a written event stands for
KindOf(m) == published[m[1]][m[2]]

\* C13 (as claimed): when the spawn of a run failed and the handling of the
\* failure is over, the run is failed and every subscriber that was connected
\* from the start has been written a diagnostic line, then RUN_DONE, and has
\* been ended.
C13_SpawnFailureReported ==
    \A r \in RunIds :
        (SpawnFailed(r) /\ phase[r] \in {"unhandledError", "closeThrew", "finished"})
        => /\ status[r] = "failed"
           /\ \A s \in SinkIds :
                 (sinkRun[s] = r /\ joined[s] = 0 /\ sinkState[s] \in {"open", "ended"})
                 => /\ sinkState[s] = "ended"
                    /\ \E i, j \in 1..Len(received[s]) :
                          /\ i < j
                          /\ KindOf(received[s][i]) = "ERROR"
                          /\ KindOf(received[s][j]) = "RUN_DONE"

\* C14 (as claimed): a submission whose workspace could not be materialized
\* is a run that is failed, was never running and has no process.
C14_RejectedRunFailed ==
    \A r \in RunIds :
        phase[r] = "rejected"
        => /\ status[r] = "failed"
           /\ \A i \in 1..Len(statusHist[r]) : statusHist[r][i] # "running"
           /\ spawns[r] = 0

\* C15: RUN_DONE is the last broadcast of its run and the last event written
\* to any subscriber, and a subscriber is ended by the server only after
\* RUN_DONE has been broadcast for its run.
C15_RunDoneLast ==
    /\ \A r \in RunIds :
          \A i \in 1..Len(published[r]) :
              published[r][i] = "RUN_DONE" => i = Len(published[r])
    /\ \A s \in SinkIds :
          /\ \A i \in 1..Len(received[s]) :
                KindOf(received[s][i]) = "RUN_DONE" => i = Len(received[s])
          /\ sinkState[s] = "ended" =>
                \E i \in 1..Len(published[sinkRun[s]]) :
                    published[sinkRun[s]][i] = "RUN_DONE"

\* a subscriber was written an output chunk, then RUN_DONE, and was ended
C15_Witness ==
    \E s \in SinkIds :
        /\ sinkState[s] = "ended"
        /\ Len(received[s]) >= 2
        /\ KindOf(received[s][1]) = "chunk"
        /\ KindOf(received[s][Len(received[s])]) = "RUN_DONE"

\* C16 (as claimed): exit-code.txt is absent while the run is queued or
\* running, and once the process of the run has closed it exists and holds
\* the exit code the close event carried.
C16_MarkerFile ==
    \A r \in RunIds :
        /\ status[r] \in {"none", "queued", "running"} => exitFile[r] = "absent"
        /\ closeEvt[r] # <<>> =>
              /\ exitFile[r] # "absent"
              /\ ~closeEvt[r][1].isNull
              /\ exitFile[r] = NumToString(closeEvt[r][1].n)

\* C17 (as claimed): a stream request never registers a sink under an id
\* that is not in the registry.
C17_UnknownIdRegistersNothing ==
    [][\A r \in RunIds :
          r \notin Range(runs) => Range(clientList'[r]) \subseteq Range(clientList[r])]_vars

\* C18 (as claimed): a sink whose write fails does not keep a broadcast from
\* the other sinks of the run: every healthy connected sink has been written
\* every broadcast its run made since it connected.
C18_OthersStillReceive ==
    \A s \in SinkIds :
        sinkState[s] = "open" => received[s] = Expected(sinkRun[s], joined[s])

\* the elements of `new` stand in `old` in the same order
SameOrder(old, new) ==
    \A i, j \in 1..Len(new) :
        i < j => \E a, b \in 1..Len(old) : a < b /\ old[a] = new[i] /\ old[b] = new[j]

\* the request 'close' handler of sink s runs in this step
Unsubscribes(s) == sinkState[s] # "closed" /\ sinkState'[s] = "closed"

C20_SubscribersDiscarded ==
    \A r \in RunIds :
        (/\ phase[r] = "finished"
         /\ \A s \in SinkIds : sinkRun[s] # r)
        => r \notin clientKeys

\* C21 (as claimed): the id of an accepted submission differs from the id of
\* every submission accepted before it, so no run record is overwritten and
\* no two runs use the same directory runs/<id>.
C21_FreshRunId ==
    \A i, j \in 1..Len(issued) : i # j => issued[i] # issued[j]

\* the POST /start handler that registers run r runs in this step
Accepts(r) == status[r] = "none" /\ status'[r] # "none"

C23_OnlySweepRemoves ==
    [][\A r \in RunIds :
          (\/ r \in Range(runs) /\ r \notin Range(runs')
           \/ dirExists[r] /\ ~dirExists'[r])
          => /\ r \in lastSweep'.removed
             /\ r \notin lastSweep.removed]_vars

\* a sweep has removed a run whose process had closed and whose subscriber
\* had been ended by the timer
C23_Witness ==
    \E r \in RunIds, s \in SinkIds :
        /\ r \in lastSweep.removed
        /\ ~dirExists[r]
        /\ phase[r] = "finished"
        /\ sinkState[s] = "closed"

\* C24 (as claimed): the two servers answer a stream request alike: in a
\* state both reach by the same requests and events, a request for any id
\* is accepted by both or refused by both.
C24_SameStreamResponse ==
    \A r \in RunIds :
        Nameable(r) => (StreamAcceptsIn("original", r) <=> StreamAcceptsIn("improved", r))

\* C25: a listing that GET /runs returns holds exactly the runs registered
\* at the time of the request, each once, and no entry is older than the
\* entry that follows it.
C25_NewestFirst ==
    (listing.asked /\ listing.ok) =>
        /\ \A i \in 1..(Len(listing.runs) - 1) :
              createdAt[listing.runs[i]] >= createdAt[listing.runs[i + 1]]
        /\ Range(listing.runs) = Range(listing.registry)
        /\ Len(listing.runs) = Len(listing.registry)

\* a listing of three runs, the first created after the last
C25_Witness ==
    /\ listing.asked /\ listing.ok
    /\ Len(listing.runs) = 3
    /\ createdAt[listing.runs[1]] > createdAt[listing.runs[3]]

\* C26: getRunVideos and getRunScreenshots never raise: whatever the artifact
\* folder holds (missing, unreadable, an entry that cannot be read or that
\* disappeared during the walk), a query that was made returned a list.
C26_QueriesNeverRaise ==
    /\ videos.asked => ~videos.threw
    /\ screenshots.asked => ~screenshots.threw

\* the files of the artifact folder and of its sub-folders whose extension,
\* in any letter case, is one of exts
FilesAnyDepth(exts) ==
    {[dir |-> <<>>, name |-> tree.entries[i].name, ext |-> tree.entries[i].ext] :
        i \in {k \in 1..Len(tree.entries) :
                  tree.entries[k].kind = "file" /\ Lower(tree.entries[k].ext) \in exts}}
    \cup UNION {
        {[dir |-> <<tree.entries[i].name>>, name |-> tree.entries[i].entries[j].name,
          ext |-> tree.entries[i].entries[j].ext] :
            j \in {k \in 1..Len(tree.entries[i].entries) :
                      Lower(tree.entries[i].entries[k].ext) \in exts}} :
        i \in {k \in 1..Len(tree.entries) : tree.entries[k].kind = "dir"}}

EverythingReadable ==
    /\ tree.exists /\ tree.readable
    /\ \A i \in 1..Len(tree.entries) :
          /\ tree.entries[i].readable
          /\ \A j \in 1..Len(tree.entries[i].entries) : tree.entries[i].entries[j].readable

ExactlyOnce(result, exts) ==
    /\ ~result.threw
    /\ Range(result.paths) = FilesAnyDepth(exts)
    /\ Len(result.paths) = Cardinality(FilesAnyDepth(exts))

\* C27: over a folder that can be read throughout, the recordings query
\* returns every .mp4 file at any depth exactly once and nothing else, and
\* the image query every .png/.jpg/.jpeg file likewise.
C27_EveryMatchingFileOnce ==
    EverythingReadable =>
        /\ videos.asked => ExactlyOnce(videos, {"mp4"})
        /\ screenshots.asked => ExactlyOnce(screenshots, {"png", "jpg", "jpeg"})

\* directory first (the folder itself before its sub-folders), then filename
ExtRank(ext) == CASE ext = "MP4" -> 1 [] ext = "mp4" -> 2 [] ext = "png" -> 3 [] OTHER -> 4
PathBefore(p, q) ==
    LET d(x) == IF x.dir = <<>> THEN 0 ELSE x.dir[1]
    IN  \/ d(p) < d(q)
        \/ d(p) = d(q) /\ p.name < q.name
        \/ d(p) = d(q) /\ p.name = q.name /\ ExtRank(p.ext) <= ExtRank(q.ext)

SortedPaths(result) ==
    ~result.threw =>
        \A i, j \in 1..Len(result.paths) : i < j => PathBefore(result.paths[i], result.paths[j])

\* C28: the list a query returns is sorted by directory and then by filename,
\* in whatever order the file system lists the entries.
C28_SortedResult ==
    /\ videos.asked => SortedPaths(videos)
    /\ screenshots.asked => SortedPaths(screenshots)

FlagAt(i, flag) == i <= Len(cypressCommand) /\ cypressCommand[i] = Arg(flag)
Keys(arg) == {arg.pairs[k][1] : k \in 1..Len(arg.pairs)}
WellFormed(arg) == arg.pairs # <<>> /\ ~arg.comma

\* C29: in the argument list of a run, every --config is followed by exactly
\* one well-formed value, the value after some --config carries videosFolder
\* and screenshotsFolder, and a given target URL is carried as baseUrl by
\* the value after some --config.
C29_ConfigValues ==
    cypressCommand # <<>> =>
        /\ \A i \in 1..Len(cypressCommand) :
              FlagAt(i, "--config") =>
                  /\ i < Len(cypressCommand)
                  /\ WellFormed(cypressCommand[i + 1])
                  /\ i + 2 <= Len(cypressCommand) => cypressCommand[i + 2].pairs = <<>>
        /\ \E i \in 1..(Len(cypressCommand) - 1) :
              /\ FlagAt(i, "--config")
              /\ {"videosFolder", "screenshotsFolder"} \subseteq Keys(cypressCommand[i + 1])
        /\ baseUrl # "" =>
              \E i \in 1..(Len(cypressCommand) - 1) :
                  FlagAt(i, "--config") /\ "baseUrl" \in Keys(cypressCommand[i + 1])

FirstPresent ==
    IF "cypress.config.mjs" \in workFiles THEN "cypress.config.mjs"
    ELSE IF "cypress.config.ts" \in workFiles THEN "cypress.config.ts"
    ELSE IF "cypress.config.js" \in workFiles THEN "cypress.config.js"
    ELSE IF "cypress.config.cjs" \in workFiles THEN "cypress.config.cjs"
    ELSE IF "cypress.json" \in workFiles THEN "cypress.json"
    ELSE "none"

Flags(flag) == {i \in 1..Len(cypressCommand) : cypressCommand[i] = Arg(flag)}

C31_NoControlBytes == "ESC" \notin Range(wire)

\* C35: what broadcast writes for a chunk is one event carrying the whole
\* chunk: the event ends only at the final blank line, and every line of it
\* is a data line, so every line break inside the text is followed by the
\* data prefix.
C35_OneEventPerChunk ==
    wire # <<>> =>
        \A i \in 1..(Len(wire) - 2) : wire[i] = "LF" => wire[i + 1] = "data: "

\* C32: once a run is registered, no step changes its id, createdAt, baseUrl,
\* filename or paths (the status is the only field that is written again).
C32_FieldsImmutable ==
    [][\A r \in RunIds :
          status[r] # "none" =>
              createdAt'[r] = createdAt[r] /\ runFields'[r] = runFields[r]]_vars

\* a run went through runCypress, its output was broadcast and it ended,
\* with the fields it was registered with
C32_Witness ==
    \E r \in RunIds :
        /\ statusHist[r] = <<"queued", "running", "done">>
        /\ "chunk" \in Range(published[r])
        /\ runFields[r] = RunObject(r)
        /\ nextId > r + 1

\* C34: the POST /start that registers a run leaves it in the registry: the
\* sweep called at the end of the handler does not evict the run just
\* created.
C34_NewRunSurvivesSweep ==
    [][\A r \in RunIds : Accepts(r) => r \in Range(runs')]_vars

\* C33: when callbacks run and processes close, a run that is queued or
\* running eventually is done or failed.
C33_EveryRunEnds ==
    \A r \in RunIds :
        (status[r] \in {"queued", "running"}) ~> (status[r] \in {"done", "failed"})

\* C36: a POST /start refused for its file or its baseUrl leaves nothing
\* behind: no registry entry, no process and no run directory for the id it
\* may have generated.
C36_RejectedLeavesNothing ==
    \A r \in RunIds :
        phase[r] = "invalid" =>
            /\ r \notin Range(runs)
            /\ spawns[r] = 0
            /\ r \notin clientKeys
            /\ ~dirExists[r]

\* C37: in the improved server a run whose directory could not be deleted
\* by the latest sweep keeps its entry and its directory, every other excess
\* run of that sweep is gone together with its directory, so the registry
\* exceeds the maximum by the failed deletions at most, and a step that
\* removes entries does not end the server.
C37_FailedDeletionIsolated ==
    [][variant = "improved" =>
          /\ \A r \in lastSweep'.failed : r \in Range(runs') /\ dirExists'[r]
          /\ \A r \in lastSweep'.removed : r \notin Range(runs') /\ ~dirExists'[r]
          /\ lastSweep'.failed \cap lastSweep'.removed = {}
          /\ Len(runs') <= MaxRunsRetention + Cardinality(lastSweep'.failed)
          /\ (\E r \in Range(runs) : r \notin Range(runs')) => crashed' = crashed]_vars

\* one sweep failed on one directory and evicted another run
C37_Witness ==
    /\ lastSweep.failed # {}
    /\ lastSweep.removed # {}
    /\ ~crashed

\* a step of the interval sweep: no submission, and either entries go or the
\* registry is over the maximum and stays as it is
NoSubmission == nextId' = nextId

\* C38, as stated: a sweep that follows a sweep changes neither the registry
\* nor the directories (every submission of the improved server ends with
\* a sweep, so every interval sweep follows one).
C38_SweepIdempotent ==
    [][NoSubmission =>
          /\ runs' = runs
          /\ \A r \in RunIds : dirExists[r] => dirExists'[r]]_vars

\* C38, amended: a sweep changes nothing when the registry holds at most the
\* maximum; a sweep that follows a sweep removes only runs whose directory
\* the earlier sweep failed to delete.
C38_SweepIdempotentUnlessFailed ==
    [][NoSubmission =>
          /\ Len(runs) <= MaxRunsRetention =>
                runs' = runs /\ \A r \in RunIds : dirExists[r] => dirExists'[r]
          /\ \A r \in RunIds :
                (r \in Range(runs) /\ r \notin Range(runs')) \/ (dirExists[r] /\ ~dirExists'[r])
                    => r \in lastSweep.failed]_vars

\* an interval sweep ran over a registry that an earlier sweep had left over
\* the maximum, and removed the run that sweep had failed on
C38_Witness ==
    /\ lastSweep.removed # {}
    /\ lastSweep.failed = {}
    /\ faults > 0
    /\ Len(runs) = MaxRunsRetention
    /\ \E r \in lastSweep.removed : r < nextId - 1

\* C39: after SIGTERM or SIGINT the server.close callback eventually runs
\* and the process exits, whatever subscribers are connected and whatever
\* runs are in flight (unless an uncaught exception ended the process first).
C39_ShutdownCompletes == signalled ~> (exited \/ crashed)

====
